---------------------------- MODULE Spec2Model ----------------------------
(***************************************************************************)
(* Bootstrap mediation confidence intervals of                            *)
(* src/analysis/04_bootstrap_mediation.py (lines 53-127): the point        *)
(* estimates, the seeded resampling loop, and the percentile intervals.    *)
(*                                                                         *)
(* The script's data preparation (lines 16-51, 81-91) is not modelled: the *)
(* block is modelled over the variables it reads, X, Y_me, Y_out and       *)
(* N_BOOT, which range over small sets.  The design matrix keeps its first *)
(* two columns, the intercept and the treatment indicator (PFORR_COL); the *)
(* control and region columns are left out.                                *)
(*                                                                         *)
(* A float is a pair <<num, den>>: a reduced fraction with den > 0, or one *)
(* of NaN = <<0,0>>, +inf = <<1,0>>, -inf = <<-1,0>>.  Arithmetic is exact *)
(* (no rounding) and follows IEEE 754 on the three special values.         *)
(***************************************************************************)
EXTENDS Integers, Sequences, FiniteSets, TLC

\* Bounds of the model.
MaxN == 2
MaxBoot == 2
MaxSeed == 3
MaxOther == 1

\* src line 92: index (0-based) of the treatment column of X.
PFORR_COL == 1

-----------------------------------------------------------------------------
(* Floats *)

NaN == <<0, 0>>
PosInf == <<1, 0>>
NegInf == <<-1, 0>>

Abs(x) == IF x < 0 THEN -x ELSE x

Sgn(x) == IF x < 0 THEN -1 ELSE IF x > 0 THEN 1 ELSE 0

RECURSIVE GCD(_, _)
GCD(a, b) == IF b = 0 THEN a ELSE GCD(b, a % b)

\* The float num/den (den may be 0 or negative).
Frac(num, den) ==
    IF den = 0 THEN <<Sgn(num), 0>>
    ELSE LET g == GCD(Abs(num), Abs(den))
             s == Sgn(den)
         IN  <<(s * num) \div g, (s * den) \div g>>

Flt(k) == <<k, 1>>

IsNaN(x) == x = NaN
IsInf(x) == x[2] = 0 /\ x[1] # 0
IsFinite(x) == x[2] > 0

FNeg(x) == <<-x[1], x[2]>>

FAdd(x, y) ==
    IF IsNaN(x) \/ IsNaN(y) THEN NaN
    ELSE IF IsInf(x) /\ IsInf(y) THEN (IF x = y THEN x ELSE NaN)
    ELSE IF IsInf(x) THEN x
    ELSE IF IsInf(y) THEN y
    ELSE Frac(x[1] * y[2] + y[1] * x[2], x[2] * y[2])

FSub(x, y) == FAdd(x, FNeg(y))

FMul(x, y) ==
    IF IsNaN(x) \/ IsNaN(y) THEN NaN
    ELSE IF IsInf(x) \/ IsInf(y)
         THEN (IF x[1] = 0 \/ y[1] = 0 THEN NaN ELSE <<Sgn(x[1]) * Sgn(y[1]), 0>>)
    ELSE Frac(x[1] * y[1], x[2] * y[2])

\* x / y as numpy divides arrays: a zero divisor gives +-inf, or NaN for 0/0.
FDiv(x, y) ==
    IF IsNaN(x) \/ IsNaN(y) THEN NaN
    ELSE IF IsInf(y) THEN (IF IsInf(x) THEN NaN ELSE Flt(0))
    ELSE IF IsInf(x) THEN (IF y[1] < 0 THEN FNeg(x) ELSE x)
    ELSE Frac(x[1] * y[2], x[2] * y[1])

\* x <= y; false when either is NaN.
FLe(x, y) ==
    /\ ~IsNaN(x)
    /\ ~IsNaN(y)
    /\ \/ x = y
       \/ x = NegInf
       \/ y = PosInf
       \/ IsFinite(x) /\ IsFinite(y) /\ x[1] * y[2] <= y[1] * x[2]

-----------------------------------------------------------------------------
(* np.linalg.lstsq(M, y, rcond=None): the least-squares solution of        *)
(* M b = y, the minimum-norm one when M is rank-deficient.  M is a         *)
(* sequence of rows of 2 or 3 integer-valued floats, y a sequence of       *)
(* integer-valued floats of the same length.                               *)

RECURSIVE SumSeq(_)
SumSeq(s) == IF s = <<>> THEN 0 ELSE Head(s) + SumSeq(Tail(s))

\* The sequence f as an explicit tuple (evaluated once, not at each use).
Tup(f) == f \o <<>>

\* The integer rows of a matrix of integer-valued floats.
IntRows(M) == Tup([r \in 1..Len(M) |-> Tup([p \in 1..Len(M[r]) |-> M[r][p][1]])])

\* M^T M and M^T y.
Gram(R, k) ==
    Tup([p \in 1..k |-> Tup([q \in 1..k |->
        SumSeq([r \in 1..Len(R) |-> R[r][p] * R[r][q]])])])

MTy(R, v, k) ==
    Tup([p \in 1..k |-> SumSeq([r \in 1..Len(R) |-> R[r][p] * v[r]])])

Det(A, k) ==
    IF k = 2 THEN A[1][1] * A[2][2] - A[1][2] * A[2][1]
    ELSE   A[1][1] * (A[2][2] * A[3][3] - A[2][3] * A[3][2])
         - A[1][2] * (A[2][1] * A[3][3] - A[2][3] * A[3][1])
         + A[1][3] * (A[2][1] * A[3][2] - A[2][2] * A[3][1])

Cross(u, v) ==
    << u[2] * v[3] - u[3] * v[2],
       u[3] * v[1] - u[1] * v[3],
       u[1] * v[2] - u[2] * v[1] >>

Outer(u, v, k) == Tup([p \in 1..k |-> Tup([q \in 1..k |-> u[p] * v[q]])])

\* A positive semidefinite matrix whose range is the null space of R: zero
\* when R has full column rank.  Adding it to M^T M selects, among the
\* solutions of the normal equations, the one orthogonal to the null space,
\* which is the minimum-norm solution the SVD solver returns.
NullPart(R, k) ==
    LET zero == Tup([p \in 1..k |-> 0])
        pairs == {ij \in (1..Len(R)) \X (1..Len(R)) :
                     k = 3 /\ Cross(R[ij[1]], R[ij[2]]) # <<0, 0, 0>>}
    IN  IF Det(Gram(R, k), k) # 0 THEN Outer(zero, zero, k)
        ELSE IF pairs # {}
        THEN LET ij == CHOOSE c \in pairs : TRUE
                 v == Cross(R[ij[1]], R[ij[2]])
             IN  Outer(v, v, k)
        ELSE LET x == R[1]
                 xx == SumSeq([p \in 1..k |-> x[p] * x[p]])
             IN  Tup([p \in 1..k |-> Tup([q \in 1..k |->
                     (IF p = q THEN xx ELSE 0) - x[p] * x[q]])])

\* Cramer's rule: the solution of B b = c for an invertible B.
Solve(B, c, k) ==
    LET d == Det(B, k)
        Bp(p) == Tup([r \in 1..k |->
                     Tup([q \in 1..k |-> IF q = p THEN c[r] ELSE B[r][q]])])
    IN  Tup([p \in 1..k |-> Frac(Det(Bp(p), k), d)])

\* [err |-> TRUE] stands for LinAlgError ("SVD did not converge"), which
\* the solver raises on a non-finite entry.
lstsq(M, y) ==
    IF \/ \E r \in 1..Len(M) : \E p \in 1..Len(M[r]) : ~IsFinite(M[r][p])
       \/ \E r \in 1..Len(y) : ~IsFinite(y[r])
    THEN [err |-> TRUE, coef |-> <<>>]
    ELSE LET R == IntRows(M)
             k == Len(M[1])
             v == Tup([r \in 1..Len(y) |-> y[r][1]])
             G == Gram(R, k)
             N == NullPart(R, k)
             B == Tup([p \in 1..k |-> Tup([q \in 1..k |-> G[p][q] + N[p][q]])])
         IN  [err |-> FALSE, coef |-> Solve(B, MTy(R, v, k), k)]

\* np.column_stack([X, Yme]).
column_stack(M, y) == Tup([r \in 1..Len(M) |-> Append(M[r], y[r])])

\* src lines 94-98.  Returns a, b, direct.
mediation_fast(Xs, Yme, Yout) ==
    LET me == lstsq(Xs, Yme)
        Xout == column_stack(Xs, Yme)
        out == lstsq(Xout, Yout)
    IN  IF me.err \/ out.err THEN [err |-> TRUE, a |-> NaN, b |-> NaN, d |-> NaN]
        ELSE [err |-> FALSE,
              a |-> me.coef[PFORR_COL + 1],
              b |-> out.coef[Len(out.coef)],
              d |-> out.coef[PFORR_COL + 1]]

-----------------------------------------------------------------------------
(* np.random: the process-wide generator.  The Mersenne Twister is stood   *)
(* for by a 16-state linear congruential generator: what matters here is   *)
(* that it is one piece of global state, that seeding fixes the stream,    *)
(* and that every draw advances it.  Entropy is the state of a generator   *)
(* never seeded (numpy seeds it from the operating system): its draws are  *)
(* arbitrary.                                                              *)

Entropy == -1
RngStates == 0..15

\* np.random.seed(s).
seed_state(s) == s % 16

rk_next(st) == (5 * st + 3) % 16

\* One value of [0, n) from a seeded state.
rk_interval(st, n) == (st * n) \div 16

\* The k values drawn from state st, and the state they leave.
RECURSIVE rk_fill(_, _, _)
rk_fill(st, n, k) ==
    IF k = 0 THEN [vals |-> <<>>, st |-> st]
    ELSE LET nx == rk_next(st)
             rest == rk_fill(nx, n, k - 1)
         IN  [vals |-> <<rk_interval(nx, n)>> \o rest.vals, st |-> rest.st]

\* np.random.randint(0, n, size): the possible (index array, next state).
randint(st, n, size) ==
    IF st = Entropy
    THEN {[vals |-> v, st |-> Entropy] : v \in [1..size -> 0..(n - 1)]}
    ELSE {rk_fill(st, n, size)}

-----------------------------------------------------------------------------
(* np.percentile(arr, q), linear interpolation; q is qn/qd.                *)

\* The mask ignored.
MaskedKeepsAll(arr, mask) == arr

\* arr[mask]: the entries of arr where mask is TRUE, in order.
RECURSIVE Masked(_, _)
Masked(arr, mask) ==
    IF arr = <<>> THEN <<>>
    ELSE (IF Head(mask) THEN <<Head(arr)>> ELSE <<>>)
         \o Masked(Tail(arr), Tail(mask))

\* Insertion of x into an ascending sequence.
RECURSIVE Insert(_, _)
Insert(x, s) ==
    IF s = <<>> THEN <<x>>
    ELSE IF FLe(x, Head(s)) THEN <<x>> \o s
    ELSE <<Head(s)>> \o Insert(x, Tail(s))

RECURSIVE Sorted(_)
Sorted(s) == IF s = <<>> THEN <<>> ELSE Insert(Head(s), Sorted(Tail(s)))

\* numpy's _lerp: a + (b - a) * t, computed from b when t >= 1/2.
lerp(a, b, t) ==
    LET diff == FSub(b, a)
    IN  IF FLe(Frac(1, 2), t) THEN FSub(b, FMul(diff, FSub(Flt(1), t)))
        ELSE FAdd(a, FMul(diff, t))

\* For a non-empty arr.  A NaN anywhere in arr makes the result NaN.
percentile(arr, qn, qd) ==
    IF \E j \in 1..Len(arr) : IsNaN(arr[j]) THEN NaN
    ELSE LET srt == Sorted(arr)
             num == (Len(arr) - 1) * qn
             den == 100 * qd
             lo == num \div den
             hi == IF lo + 1 > Len(arr) - 1 THEN Len(arr) - 1 ELSE lo + 1
             t == Frac(num - lo * den, den)
         IN  lerp(srt[lo + 1], srt[hi + 1], t)

\* src lines 121-122.
ci(arr) == <<percentile(arr, 5, 2), percentile(arr, 195, 2)>>

-----------------------------------------------------------------------------
(* State *)

VARIABLES
    X,          \* design matrix: a sequence of rows <<1, pforr>>
    Y_me,       \* mediator vector
    Y_out,      \* outcome vector
    N_BOOT,     \* number of bootstrap iterations
    seed,       \* the argument of np.random.seed
    np_build,   \* what np.percentile does on an empty array in this build
    np_random,  \* state of the process-wide generator
    pc,         \* "start", "loop", "done", or "raised" (uncaught exception)
    i,          \* iterations completed
    boot_ind,   \* indirect effect per iteration, NaN where none was stored
    boot_dir,   \* direct effect per iteration
    pt,         \* point estimates
    res,        \* what the aggregation computed
    drawn,      \* history: the index array of each iteration
    failed,     \* history: whether the try block of each iteration raised
    run,        \* which execution of the script this is
    prev,       \* history: drawn and res of the first execution
    others      \* draws other consumers made from np.random

vars == << X, Y_me, Y_out, N_BOOT, seed, np_build, np_random, pc, i,
           boot_ind, boot_dir, pt, res, drawn, failed, run, prev, others >>

inputs == << X, Y_me, Y_out, N_BOOT, seed >>

\* The values of the cells.  pforr is 0.0 or 1.0 (src line 43); the codes
\* of me_map and outcome_map (src lines 21-29) are cut to two each.  The
\* block is modelled on every input of these shapes, also those the data
\* preparation of the script would not hand it: a cell of Y_out may be
\* non-finite, and Y_me may have another number of rows than X.
PforrVals == {Flt(0), Flt(1)}
MeVals == {Flt(1), Flt(2)}
OutVals == {Flt(1), Flt(2), NaN}

Vectors(vals) == UNION {[1..l -> vals] : l \in 1..MaxN}

NoPt == [a |-> NaN, b |-> NaN, d |-> NaN, ind |-> NaN, tot |-> NaN, pct |-> NaN]

NoRes == [nvalid |-> -1, valid |-> <<>>, boot_tot |-> <<>>, boot_pct |-> <<>>,
          ci_args |-> <<>>, ci_ind |-> <<>>, ci_dir |-> <<>>,
          ci_tot |-> <<>>, ci_pct |-> <<>>]

Init ==
    /\ \E n \in 1..MaxN : X \in [1..n -> {<<Flt(1), t>> : t \in PforrVals}]
    /\ Y_me \in Vectors(MeVals)
    /\ Y_out \in [1..Len(X) -> OutVals]
    /\ N_BOOT \in 0..MaxBoot
    /\ seed \in 0..MaxSeed
    /\ np_build = "unknown"
    /\ np_random = Entropy
    /\ pc = "start"
    /\ i = 0
    /\ boot_ind = <<>>
    /\ boot_dir = <<>>
    /\ pt = NoPt
    /\ res = NoRes
    /\ drawn = <<>>
    /\ failed = <<>>
    /\ run = 1
    /\ prev = <<>>
    /\ others = 0

-----------------------------------------------------------------------------
(* Operations *)

\* arr[idx] for an index array idx (0-based): IndexError when an index is
\* out of bounds.
InBounds(arr, idx) == \A j \in 1..Len(idx) : idx[j] < Len(arr)
Take(arr, idx) == Tup([j \in 1..Len(idx) |-> arr[idx[j] + 1]])

\* src lines 54-62.  The two OLS fits (statsmodels, pseudo-inverse) give the
\* least-squares coefficients of the rows of df2; they are modelled where
\* X, Y_me and Y_out are such rows (equal lengths, finite).
PointEstimates ==
    LET m == mediation_fast(X, Y_me, Y_out)
        ind_pt == FMul(m.a, m.b)
        tot_pt == FAdd(ind_pt, m.d)
    IN  IF Len(Y_me) # Len(X) \/ Len(Y_out) # Len(X) \/ m.err THEN NoPt
        ELSE [a |-> m.a, b |-> m.b, d |-> m.d, ind |-> ind_pt, tot |-> tot_pt,
              pct |-> FMul(FDiv(ind_pt, tot_pt), Flt(100))]

\* The generator left as the process started it.
SeedOmitted == np_random

\* src line 100.
SeedGenerator == seed_state(seed)

\* src lines 53-104: the point estimates, np.random.seed, N_BOOT, n, and
\* the two arrays filled with NaN.
Start ==
    /\ pc = "start"
    /\ pt' = PointEstimates
    /\ np_random' = SeedGenerator
    /\ boot_ind' = Tup([j \in 1..N_BOOT |-> NaN])
    /\ boot_dir' = Tup([j \in 1..N_BOOT |-> NaN])
    /\ i' = 0
    /\ pc' = "loop"
    /\ UNCHANGED << inputs, np_build, res, drawn, failed, run, prev, others >>

\* The try statement with an except clause that stores zeros.
TryBodyZeroOnError(idx, cur_ind, cur_dir) ==
    IF ~(\A j \in 1..Len(idx) : idx[j] < Len(Y_me) /\ idx[j] < Len(Y_out))
    THEN [err |-> TRUE, ind |-> Flt(0), dir |-> Flt(0)]
    ELSE LET g(arr) == [j \in 1..Len(idx) |-> arr[idx[j] + 1]] \o <<>>
             m == mediation_fast(g(X), g(Y_me), g(Y_out))
         IN  IF m.err THEN [err |-> TRUE, ind |-> Flt(0), dir |-> Flt(0)]
             ELSE [err |-> FALSE, ind |-> FMul(m.a, m.b), dir |-> m.d]

\* The try statement with the mediator passed as it is, not gathered with
\* idx.
TryBodyMediatorNotGathered(idx, cur_ind, cur_dir) ==
    IF ~InBounds(Y_out, idx) \/ Len(Y_me) # Len(idx)
    THEN [err |-> TRUE, ind |-> cur_ind, dir |-> cur_dir]
    ELSE LET m == mediation_fast(Take(X, idx), Y_me, Take(Y_out, idx))
         IN  IF m.err THEN [err |-> TRUE, ind |-> cur_ind, dir |-> cur_dir]
             ELSE [err |-> FALSE, ind |-> FMul(m.a, m.b), dir |-> m.d]

\* src lines 108-113: the try statement.  cur_ind and cur_dir are what the
\* slots of this iteration hold (the NaN they were filled with); the except
\* clause passes, so they stay when the gather (IndexError) or the
\* estimator (LinAlgError) raised.
TryBody(idx, cur_ind, cur_dir) ==
    IF ~InBounds(Y_me, idx) \/ ~InBounds(Y_out, idx)
    THEN [err |-> TRUE, ind |-> cur_ind, dir |-> cur_dir]
    ELSE LET m == mediation_fast(Take(X, idx), Take(Y_me, idx), Take(Y_out, idx))
         IN  IF m.err THEN [err |-> TRUE, ind |-> cur_ind, dir |-> cur_dir]
             ELSE [err |-> FALSE, ind |-> FMul(m.a, m.b), dir |-> m.d]

\* src lines 106-113: one iteration of the loop.
Iterate ==
    /\ pc = "loop"
    /\ i < N_BOOT
    /\ \E dr \in randint(np_random, Len(X), Len(X)) :
          \E r \in {TryBody(dr.vals, boot_ind[i + 1], boot_dir[i + 1])} :
              /\ np_random' = dr.st
              /\ drawn' = Append(drawn, dr.vals)
              /\ failed' = Append(failed, r.err)
              /\ boot_ind' = [boot_ind EXCEPT ![i + 1] = r.ind]
              /\ boot_dir' = [boot_dir EXCEPT ![i + 1] = r.dir]
    /\ i' = i + 1
    /\ UNCHANGED << inputs, np_build, pc, pt, res, run, prev, others >>

\* valid.sum() (src lines 116, 129).
RECURSIVE NumTrue(_)
NumTrue(b) == IF b = <<>> THEN 0 ELSE (IF Head(b) THEN 1 ELSE 0) + NumTrue(Tail(b))

\* src line 115.
ValidMask(ind) == Tup([j \in 1..Len(ind) |-> ~IsNaN(ind[j])])

\* boot_dir cut to the number of valid iterations instead of masked.
DirPrefix(dir, valid) == SubSeq(dir, 1, Len(Masked(valid, valid)))

\* src line 118: boot_dir[valid].
DirValid(dir, valid) == Masked(dir, valid)

\* src line 118.
BootTot(ind, dir) == Tup([j \in 1..Len(ind) |-> FAdd(ind[j], dir[j])])

\* src line 119.
BootPct(ind, tot) ==
    Tup([j \in 1..Len(ind) |-> FMul(FDiv(ind[j], tot[j]), Flt(100))])

\* src lines 115-127: the mask, the totals and percentages, and the four
\* intervals, in a build bld of numpy: np.percentile of an empty array
\* raises IndexError in some builds ("raises") and returns NaN in others
\* ("nan").  The first call of ci is the one that raises.  ci_args are the
\* arrays ci was called with.
Aggregation(ind, dir, bld) ==
    LET valid == ValidMask(ind)
        bi == Masked(ind, valid)
        bd == DirValid(dir, valid)
        tot == BootTot(bi, bd)
        pct == BootPct(bi, tot)
        base == [NoRes EXCEPT !.nvalid = NumTrue(valid), !.valid = valid,
                              !.boot_tot = tot, !.boot_pct = pct]
        none == <<NaN, NaN>>
    IN  IF bi # <<>>
        THEN [pc |-> "done",
              res |-> [base EXCEPT !.ci_args = <<bi, bd, tot, pct>>,
                                   !.ci_ind = ci(bi), !.ci_dir = ci(bd),
                                   !.ci_tot = ci(tot), !.ci_pct = ci(pct)]]
        ELSE IF bld = "raises"
        THEN [pc |-> "raised", res |-> [base EXCEPT !.ci_args = <<bi>>]]
        ELSE [pc |-> "done",
              res |-> [base EXCEPT !.ci_args = <<bi, bd, tot, pct>>,
                                   !.ci_ind = none, !.ci_dir = none,
                                   !.ci_tot = none, !.ci_pct = none]]

\* The end of the loop and src lines 115-127.  np_build records how the
\* build treats an empty array once that has shown.
Aggregate ==
    /\ pc = "loop"
    /\ i = N_BOOT
    /\ \E bld \in (IF np_build = "unknown" THEN {"raises", "nan"} ELSE {np_build}) :
          \E out \in {Aggregation(boot_ind, boot_dir, bld)} :
              /\ res' = out.res
              /\ pc' = out.pc
              /\ np_build' = IF out.res.nvalid = 0 THEN bld ELSE np_build
    /\ UNCHANGED << inputs, np_random, i, boot_ind, boot_dir, pt, drawn,
                    failed, run, prev, others >>

\* The script is executed again, in a new process: every variable of the
\* script starts afresh, and so does the generator.
Rerun ==
    /\ pc \in {"done", "raised"}
    /\ run = 1
    /\ prev' = [drawn |-> drawn, res |-> res, pc |-> pc]
    /\ run' = 2
    /\ np_random' = Entropy
    /\ pc' = "start"
    /\ i' = 0
    /\ boot_ind' = <<>>
    /\ boot_dir' = <<>>
    /\ pt' = NoPt
    /\ res' = NoRes
    /\ drawn' = <<>>
    /\ failed' = <<>>
    /\ UNCHANGED << inputs, np_build, others >>

\* Another consumer of np.random in the same process (as the placebo loop
\* of 03_robustness.py is) draws one number while the loop runs.
OtherDraw ==
    /\ pc = "loop"
    /\ others < MaxOther
    /\ np_random' = rk_next(np_random)
    /\ others' = others + 1
    /\ UNCHANGED << inputs, np_build, pc, i, boot_ind, boot_dir, pt, res,
                    drawn, failed, run, prev >>

Next == Start \/ Iterate \/ Aggregate

Spec == Init /\ [][Next]_vars

\* The script executed twice.
NextTwice == Start \/ Iterate \/ Aggregate \/ Rerun

SpecTwice == Init /\ [][NextTwice]_vars

\* The script in a process where another consumer draws from np.random.
NextShared == Start \/ Iterate \/ Aggregate \/ OtherDraw

SpecShared == Init /\ [][NextShared]_vars

-----------------------------------------------------------------------------
(* Properties *)

Ended == pc \in {"done", "raised"}

\* C1: an iteration whose try block raised leaves its slots NaN, is masked
\* out of everything the aggregation computes, and does not end the loop:
\* every one of the N_BOOT iterations is made, and the only exception that
\* leaves the script is the one of an empty percentile after the loop.
C1_FailedIterationDiscarded ==
    /\ Len(failed) = i
    /\ Len(drawn) = i
    /\ \A j \in 1..i : failed[j] => IsNaN(boot_ind[j]) /\ IsNaN(boot_dir[j])
    /\ Ended =>
          /\ i = N_BOOT
          /\ Len(res.valid) = N_BOOT
          /\ \A j \in 1..N_BOOT : failed[j] => ~res.valid[j]
          /\ res.nvalid <= N_BOOT - NumTrue(failed)
          /\ Len(res.boot_tot) = res.nvalid
          /\ Len(res.boot_pct) = res.nvalid
          /\ \A k \in 1..Len(res.ci_args) : Len(res.ci_args[k]) = res.nvalid
    /\ pc = "raised" => i = N_BOOT /\ res.nvalid = 0

\* A run that ended with intervals, in which an iteration raised and a
\* later one succeeded.
C1_Witness ==
    /\ pc = "done"
    /\ \E j \in 1..N_BOOT : \E k \in 1..N_BOOT :
          j < k /\ failed[j] /\ ~failed[k] /\ res.valid[k]

\* C2: a second execution with the same seed, data and N_BOOT draws the
\* same index arrays and ends with the same mask, count and intervals.
C2_Deterministic ==
    run = 2 =>
        /\ Len(drawn) <= Len(prev.drawn)
        /\ drawn = SubSeq(prev.drawn, 1, Len(drawn))
        /\ Ended => pc = prev.pc /\ res = prev.res

\* A second execution that ended with intervals over several iterations.
C2_Witness ==
    /\ run = 2
    /\ pc = "done"
    /\ Len(drawn) >= 2
    /\ drawn[1] # drawn[2]
    /\ res.nvalid >= 1

\* C3: where the total effect of a valid iteration is 0, the percentage is
\* NaN, never an infinity, and it is not among the values the percentile
\* of the percentages is computed from.
C3_ZeroTotalUndefinedAndExcluded ==
    pc = "done" =>
        /\ \A k \in 1..Len(res.boot_tot) :
              res.boot_tot[k] = Flt(0) => IsNaN(res.boot_pct[k])
        /\ Len(res.ci_args[4]) =
              Cardinality({k \in 1..Len(res.boot_tot) : res.boot_tot[k] # Flt(0)})

RankDeficient(idx) == Det(Gram(IntRows(Take(X, idx)), 2), 2) = 0

\* C6: an iteration whose resampled design matrix is rank-deficient is
\* marked invalid (its slot stays NaN), and the loop goes on.
C6_RankDeficientMarkedInvalid ==
    /\ \A j \in 1..i : RankDeficient(drawn[j]) => IsNaN(boot_ind[j])
    /\ pc = "raised" => i = N_BOOT

RECURSIVE Positions(_, _)
Positions(mask, from) ==
    IF mask = <<>> THEN <<>>
    ELSE (IF Head(mask) THEN <<from>> ELSE <<>>) \o Positions(Tail(mask), from + 1)

\* C8: the point estimate of the total is indirect + direct with indirect
\* a * b; every iteration that did not raise stored a * b and direct of its
\* own resample; and the k-th total after masking is the sum of the
\* indirect and the direct effect of the k-th valid iteration.
C8_TotalOfOwnDraw ==
    /\ pt.ind = FMul(pt.a, pt.b)
    /\ pt.tot = FAdd(pt.ind, pt.d)
    /\ \A j \in 1..i : ~failed[j] =>
          \E m \in {mediation_fast(Take(X, drawn[j]), Take(Y_me, drawn[j]),
                                   Take(Y_out, drawn[j]))} :
              boot_ind[j] = FMul(m.a, m.b) /\ boot_dir[j] = m.d
    /\ Ended =>
          \E pos \in {Positions(res.valid, 1)} :
              /\ Len(res.boot_tot) = Len(pos)
              /\ \A k \in 1..Len(pos) :
                    res.boot_tot[k] = FAdd(boot_ind[pos[k]], boot_dir[pos[k]])

\* A run whose first iteration was discarded and whose second was kept,
\* with a direct effect.
C8_Witness ==
    /\ pc = "done"
    /\ res.valid = <<FALSE, TRUE>>
    /\ boot_dir[2] # Flt(0)
    /\ IsFinite(res.boot_tot[1])

\* low <= high, and both within the smallest and largest entry of arr.
Within(iv, arr) ==
    /\ FLe(iv[1], iv[2])
    /\ \E k \in 1..Len(arr) : FLe(arr[k], iv[1])
    /\ \E k \in 1..Len(arr) : FLe(iv[2], arr[k])

\* C9: every reported interval is ordered and lies within the range of the
\* distribution it was computed from.
C9_IntervalsWithinRange ==
    pc = "done" =>
        /\ Within(res.ci_ind, res.ci_args[1])
        /\ Within(res.ci_dir, res.ci_args[2])
        /\ Within(res.ci_tot, res.ci_args[3])
        /\ Within(res.ci_pct, res.ci_args[4])

\* The index array of iteration j as the seed alone determines it.
SeededDraw(j) ==
    SubSeq(rk_fill(seed_state(seed), Len(X), Len(X) * j).vals,
           Len(X) * (j - 1) + 1, Len(X) * j)

\* C10: the index arrays a run draws are those its seed determines,
\* whatever else draws random numbers in the process.
C10_DrawsUnaffectedByOthers ==
    \A j \in 1..Len(drawn) : drawn[j] = SeededDraw(j)

\* The observations as rows: row k is the design row, the mediator value
\* and the outcome value of observation k.
PairedRows ==
    Tup([k \in 1..Len(X) |->
            IF k <= Len(Y_me) /\ k <= Len(Y_out)
            THEN <<X[k], Y_me[k], Y_out[k]>> ELSE <<>>])

\* The estimates of the observations idx names, each taken as a whole row.
EstimateOfRows(idx) ==
    LET rows == Tup([p \in 1..Len(idx) |-> PairedRows[idx[p] + 1]])
    IN  mediation_fast(Tup([p \in 1..Len(rows) |-> rows[p][1]]),
                       Tup([p \in 1..Len(rows) |-> rows[p][2]]),
                       Tup([p \in 1..Len(rows) |-> rows[p][3]]))

\* What i iterations of one index array each leave in a generator that
\* np.random.seed(seed) seeded.
StateAfter(k) == rk_fill(seed_state(seed), Len(X), Len(X) * k).st

\* The state part of C11.
OneIndexArrayPerIteration ==
    pc # "start" =>
        /\ Len(drawn) = i
        /\ np_random = StateAfter(i)
        /\ \A j \in 1..i :
              /\ Len(drawn[j]) = Len(X)
              /\ \A p \in 1..Len(X) : drawn[j][p] \in 0..(Len(X) - 1)
              /\ ~failed[j] =>
                    \E m \in {EstimateOfRows(drawn[j])} :
                        /\ ~m.err
                        /\ boot_ind[j] = FMul(m.a, m.b)
                        /\ boot_dir[j] = m.d

\* C11: every iteration draws exactly one index array, of length rows(X)
\* with every index in [0, rows(X)); the estimates it stores are those of
\* the observations the array names, each row with its own mediator and
\* outcome value; and no step changes X, Y_me or Y_out.
C11_OneIndexArraySelectsWholeRows ==
    /\ []OneIndexArrayPerIteration
    /\ [][UNCHANGED << X, Y_me, Y_out >>]_vars

\* Two iterations were kept on observations whose mediator and outcome
\* values differ: one drew an observation twice, the other drew the two in
\* reverse order.
C11_Witness ==
    /\ pc = "done"
    /\ Len(X) = 2 /\ Len(Y_me) = 2
    /\ Y_me[1] # Y_me[2] /\ Y_out[1] # Y_out[2] /\ X[1] # X[2]
    /\ \E j \in 1..i : ~failed[j] /\ drawn[j][1] = drawn[j][2]
    /\ \E j \in 1..i : ~failed[j] /\ drawn[j] = <<1, 0>>

=============================================================================
